---- MODULE Spec2Model ----
(***************************************************************************)
(* A model of the A* path search of python_pathfinding_astar              *)
(* (src/a_star.py, src/node.py).  One AStar instance is built from a 2D   *)
(* array of integer codes; search() runs the recursive __do_search, one   *)
(* invocation of which is one step of the model; get_result() walks the   *)
(* parent edges of the end node.                                           *)
(*                                                                         *)
(* Nodes are immutable values (frozen dataclass): a node is a record      *)
(* [x, y, node_type, edge_to_parent] whose edge_to_parent is <<>> (None)  *)
(* or <<edge>>, and an edge holds its target node by value, exactly as a  *)
(* Python Edge holds a reference to an immutable Node.                     *)
(*                                                                         *)
(* Edge.h is the float sqrt(dx*dx + dy*dy).  The model stores the         *)
(* radicand dx*dx + dy*dy in the field h and compares f = g + sqrt(h)     *)
(* exactly in integer arithmetic (FLess).                                  *)
(***************************************************************************)
EXTENDS Integers, Sequences, FiniteSets, TLC

VARIABLES arr2d,        \* the constructor's argument
          pc,           \* "new" | "invalid" | "idle" | "searching"
          layout,       \* self.__layout, [x -> [y -> Node]], <<>> before __init__
          node_start,   \* self.__node_start, <<>> for None
          node_end,     \* self.__node_end, <<>> for None
          open_list,    \* AStar.__open_list
          closed_list,  \* AStar.__closed_list
          search_ret,   \* value returned by the last search(): "none" | "true" | "false"
          ever_true,    \* history: some search() on this instance has returned True
          result,       \* outcome of the last get_result() since the last search()
          first,        \* history: what the first search() and the first
                        \* successful get_result() of the instance returned
          self_id,      \* the instance the fields above belong to: "A" | "B"
          other         \* the fields of a second instance, <<>> when there is none

vars == <<arr2d, pc, layout, node_start, node_end, open_list, closed_list,
          search_ret, ever_true, result, first, self_id, other>>

----------------------------------------------------------------------------
(* Bounds of the inputs *)

DenseX == 3
DenseY == 3
SparseX == 4
SparseY == 5
MaxObstacles == 2
CodeX == 2
CodeY == 2
MaxCode == 4
TwoX == 1
TwoY == 3

----------------------------------------------------------------------------
(* node.py *)

BLANK == 0
START == 1
END == 2
OBSTACLE == 3

NodeTypeValues == {BLANK, START, END, OBSTACLE}

SetMax(S) == CHOOSE m \in S : \A n \in S : n <= m

\* mutant: the out-of-range code wraps around instead of clamping
from_value_wrap(value) ==
    LET maxValue == SetMax(NodeTypeValues)
    IN  IF value > maxValue THEN value - maxValue ELSE value

from_value(value) ==
    LET maxValue == SetMax(NodeTypeValues)
    IN  IF value > maxValue THEN maxValue ELSE value

Node(x, y, t) == [x |-> x, y |-> y, node_type |-> t, edge_to_parent |-> <<>>]

Edge(target, g, h, is_diagonal) ==
    [target |-> target, g |-> g, h |-> h, is_diagonal |-> is_diagonal]

is_start(n) == n.node_type = START
is_end(n) == n.node_type = END
is_obstacle(n) == n.node_type = OBSTACLE
has_edge_to_parent(n) == n.edge_to_parent # <<>>

set_edge_to_parent(n, e) == [n EXCEPT !.edge_to_parent = e]

\* Node.__eq__: coordinates alone
NodeEq(a, b) == a.x = b.x /\ a.y = b.y

\* the edge of a node that has one
EdgeOf(n) == n.edge_to_parent[1]

\* f1 < f2 for f = g + sqrt(h), h the radicand, computed exactly
FLess(g1, h1, g2, h2) ==
    LET d == g2 - g1
    IN  IF d = 0 THEN h1 < h2
        ELSE IF d > 0
             THEN LET m == h1 - h2 - d * d
                  IN  h1 <= h2 \/ m < 0 \/ m * m < 4 * d * d * h2
             ELSE LET e == 0 - d
                      m == h2 - h1 - e * e
                  IN  m > 0 /\ m * m > 4 * e * e * h1

----------------------------------------------------------------------------
(* a_star.py: queries on the instance *)

get_len_x == Cardinality(DOMAIN layout)
get_len_y == Cardinality(DOMAIN layout[0])

is_in_bounds(x, y) ==
    ~(x < 0 \/ x > get_len_x - 1 \/ y < 0 \/ y > get_len_y - 1)

\* mutant: the diagonal neighbours are left out
aligned_coordinates_orthogonal(node) ==
    << <<node.x,     node.y + 1, FALSE>>,
       <<node.x + 1, node.y,     FALSE>>,
       <<node.x,     node.y - 1, FALSE>>,
       <<node.x - 1, node.y,     FALSE>> >>

\* mutant: the CR neighbour is taken two columns away
aligned_coordinates_far(node) ==
    << <<node.x - 1, node.y + 1, TRUE>>,
       <<node.x,     node.y + 1, FALSE>>,
       <<node.x + 1, node.y + 1, TRUE>>,
       <<node.x + 2, node.y,     FALSE>>,
       <<node.x + 1, node.y - 1, TRUE>>,
       <<node.x,     node.y - 1, FALSE>>,
       <<node.x - 1, node.y - 1, TRUE>>,
       <<node.x - 1, node.y,     FALSE>> >>

\* the eight aligned coordinates of __get_neighbours, in the order of the code
aligned_coordinates(node) ==
    << <<node.x - 1, node.y + 1, TRUE>>,     \* TL
       <<node.x,     node.y + 1, FALSE>>,    \* TC
       <<node.x + 1, node.y + 1, TRUE>>,     \* TR
       <<node.x + 1, node.y,     FALSE>>,    \* CR
       <<node.x + 1, node.y - 1, TRUE>>,     \* BR
       <<node.x,     node.y - 1, FALSE>>,    \* BC
       <<node.x - 1, node.y - 1, TRUE>>,     \* BL
       <<node.x - 1, node.y,     FALSE>> >>  \* CL

RECURSIVE NeighboursFrom(_, _)
NeighboursFrom(coords, i) ==
    IF i > Len(coords) THEN <<>>
    ELSE LET c == coords[i]
             rest == NeighboursFrom(coords, i + 1)
         IN  IF is_in_bounds(c[1], c[2])
             THEN <<[node |-> layout[c[1]][c[2]], is_diagonal |-> c[3]]>> \o rest
             ELSE rest

get_neighbours(node) == NeighboursFrom(aligned_coordinates(node), 1)

get_f_or_zero_if_start(node) ==
    IF node.node_type = START THEN [g |-> 0, h |-> 0]
    ELSE [g |-> EdgeOf(node).g, h |-> EdgeOf(node).h]

\* mutant: the step cost is not added to the parent's g
calc_g_step_only(parent, is_diagonal) ==
    IF ~has_edge_to_parent(parent) /\ parent.node_type = START THEN 0
    ELSE IF ~has_edge_to_parent(parent) THEN -1
    ELSE (IF is_diagonal THEN 14 ELSE 10)

\* -1 stands for the Exception('No edge found.')
calc_g(parent, is_diagonal) ==
    IF ~has_edge_to_parent(parent) /\ parent.node_type = START THEN 0
    ELSE IF ~has_edge_to_parent(parent) THEN -1
    ELSE EdgeOf(parent).g + (IF is_diagonal THEN 14 ELSE 10)

\* the radicand of the euclidean distance to the end node
calc_h(node) ==
    LET dx == node_end[1].x - node.x
        dy == node_end[1].y - node.y
    IN  (dx * dx) + (dy * dy)

\* membership and index by Node.__eq__
InList(n, list) == \E i \in 1..Len(list) : NodeEq(list[i], n)
IndexOf(n, list) ==
    CHOOSE i \in 1..Len(list) :
        NodeEq(list[i], n) /\ \A j \in 1..(i - 1) : ~NodeEq(list[j], n)

\* list.remove: drops the first element equal to n
Remove(n, list) ==
    LET k == IndexOf(n, list)
    IN  [i \in 1..(Len(list) - 1) |-> IF i < k THEN list[i] ELSE list[i + 1]]

\* mutant: of several elements of least key the last one is taken
RECURSIVE MinFrom_last(_, _, _)
MinFrom_last(list, i, best) ==
    IF i > Len(list) THEN best
    ELSE LET kb == get_f_or_zero_if_start(best)
             ki == get_f_or_zero_if_start(list[i])
         IN  IF ~FLess(kb.g, kb.h, ki.g, ki.h)
             THEN MinFrom_last(list, i + 1, list[i])
             ELSE MinFrom_last(list, i + 1, best)

\* min(list, key): the first element whose key no other element undercuts
RECURSIVE MinFrom(_, _, _)
MinFrom(list, i, best) ==
    IF i > Len(list) THEN best
    ELSE LET kb == get_f_or_zero_if_start(best)
             ki == get_f_or_zero_if_start(list[i])
         IN  IF FLess(ki.g, ki.h, kb.g, kb.h)
             THEN MinFrom(list, i + 1, list[i])
             ELSE MinFrom(list, i + 1, best)

MinNode(list) == MinFrom(list, 2, list[1])

\* mutant: visited neighbours are not skipped
ConsiderNeighbour_revisits(nb, current, open, closed) ==
    IF is_obstacle(nb.node)
    THEN open
    ELSE LET neighbour_with_edge ==
                 set_edge_to_parent(nb.node,
                     <<Edge(current, calc_g(current, nb.is_diagonal),
                            calc_h(nb.node), nb.is_diagonal)>>)
         IN  IF ~InList(neighbour_with_edge, open)
             THEN Append(open, neighbour_with_edge)
             ELSE LET index_of_other == IndexOf(neighbour_with_edge, open)
                  IN  IF EdgeOf(neighbour_with_edge).g < EdgeOf(open[index_of_other]).g
                      THEN [open EXCEPT ![index_of_other] = neighbour_with_edge]
                      ELSE open

\* mutant: obstacles are not skipped
ConsiderNeighbour_obstacles(nb, current, open, closed) ==
    IF InList(nb.node, closed)
    THEN open
    ELSE LET neighbour_with_edge ==
                 set_edge_to_parent(nb.node,
                     <<Edge(current, calc_g(current, nb.is_diagonal),
                            calc_h(nb.node), nb.is_diagonal)>>)
         IN  IF ~InList(neighbour_with_edge, open)
             THEN Append(open, neighbour_with_edge)
             ELSE LET index_of_other == IndexOf(neighbour_with_edge, open)
                  IN  IF EdgeOf(neighbour_with_edge).g < EdgeOf(open[index_of_other]).g
                      THEN [open EXCEPT ![index_of_other] = neighbour_with_edge]
                      ELSE open

\* mutant: the edge points to the current cell without its own edge
ConsiderNeighbour_flat_target(nb, current, open, closed) ==
    IF is_obstacle(nb.node) \/ InList(nb.node, closed)
    THEN open
    ELSE LET neighbour_with_edge ==
                 set_edge_to_parent(nb.node,
                     <<Edge(set_edge_to_parent(current, <<>>),
                            calc_g(current, nb.is_diagonal),
                            calc_h(nb.node), nb.is_diagonal)>>)
         IN  IF ~InList(neighbour_with_edge, open)
             THEN Append(open, neighbour_with_edge)
             ELSE LET index_of_other == IndexOf(neighbour_with_edge, open)
                  IN  IF EdgeOf(neighbour_with_edge).g < EdgeOf(open[index_of_other]).g
                      THEN [open EXCEPT ![index_of_other] = neighbour_with_edge]
                      ELSE open

\* mutant: a candidate edge of equal g replaces the stored edge too
ConsiderNeighbour_not_strict(nb, current, open, closed) ==
    IF is_obstacle(nb.node) \/ InList(nb.node, closed)
    THEN open
    ELSE LET neighbour_with_edge ==
                 set_edge_to_parent(nb.node,
                     <<Edge(current, calc_g(current, nb.is_diagonal),
                            calc_h(nb.node), nb.is_diagonal)>>)
         IN  IF ~InList(neighbour_with_edge, open)
             THEN Append(open, neighbour_with_edge)
             ELSE LET index_of_other == IndexOf(neighbour_with_edge, open)
                  IN  IF EdgeOf(neighbour_with_edge).g <= EdgeOf(open[index_of_other]).g
                      THEN [open EXCEPT ![index_of_other] = neighbour_with_edge]
                      ELSE open

\* one pass of the for-loop body of __do_search over a neighbour
ConsiderNeighbour(nb, current, open, closed) ==
    IF is_obstacle(nb.node) \/ InList(nb.node, closed)
    THEN open
    ELSE LET neighbour_with_edge ==
                 set_edge_to_parent(nb.node,
                     <<Edge(current, calc_g(current, nb.is_diagonal),
                            calc_h(nb.node), nb.is_diagonal)>>)
         IN  IF ~InList(neighbour_with_edge, open)
             THEN Append(open, neighbour_with_edge)
             ELSE LET index_of_other == IndexOf(neighbour_with_edge, open)
                  IN  IF EdgeOf(neighbour_with_edge).g < EdgeOf(open[index_of_other]).g
                      THEN [open EXCEPT ![index_of_other] = neighbour_with_edge]
                      ELSE open

\* mutant: the visited list is not consulted
RECURSIVE Expand_no_visited(_, _, _, _, _)
Expand_no_visited(nbs, i, current, open, closed) ==
    IF i > Len(nbs) THEN open
    ELSE Expand_no_visited(nbs, i + 1, current,
                           ConsiderNeighbour(nbs[i], current, open, <<>>), closed)

RECURSIVE Expand(_, _, _, _, _)
Expand(nbs, i, current, open, closed) ==
    IF i > Len(nbs) THEN open
    ELSE Expand(nbs, i + 1, current,
                ConsiderNeighbour(nbs[i], current, open, closed), closed)

Reverse(s) == [i \in 1..Len(s) |-> s[Len(s) + 1 - i]]

\* mutant: the loop collects the cell it moves to, not the cell it leaves
RECURSIVE WalkBack_shift(_, _)
WalkBack_shift(parent, acc) ==
    IF has_edge_to_parent(parent) /\ ~is_start(parent)
    THEN WalkBack_shift(EdgeOf(parent).target,
                        Append(acc, <<EdgeOf(parent).target.x, EdgeOf(parent).target.y>>))
    ELSE acc

\* the while-loop of get_result, collecting in backward order
RECURSIVE WalkBack(_, _)
WalkBack(parent, acc) ==
    IF has_edge_to_parent(parent) /\ ~is_start(parent)
    THEN WalkBack(EdgeOf(parent).target, Append(acc, <<parent.x, parent.y>>))
    ELSE acc

\* mutant: the collected list is not reversed
get_result_value_unreversed == WalkBack(EdgeOf(node_end[1]).target, <<>>)

\* mutant: the walk starts at the end node instead of its parent
get_result_value_from_end == Reverse(WalkBack(node_end[1], <<>>))

get_result_value == Reverse(WalkBack(EdgeOf(node_end[1]).target, <<>>))

----------------------------------------------------------------------------
(* The arrays an instance is built from *)

Rect(X, Y) == (0..(X - 1)) \X (0..(Y - 1))

\* a grid with the cells of s coded 1, of e coded 2, of obs coded 3, others 0
MkGrid(X, Y, s, e, obs) ==
    [x \in 0..(X - 1) |-> [y \in 0..(Y - 1) |->
        IF <<x, y>> \in s THEN 1
        ELSE IF <<x, y>> \in e THEN 2
        ELSE IF <<x, y>> \in obs THEN 3
        ELSE 0]]

AtMostOne(S) == {{}} \cup {{c} : c \in S}

RECURSIVE SubsetsUpTo(_, _)
SubsetsUpTo(S, k) ==
    IF k = 0 THEN {{}}
    ELSE LET P == SubsetsUpTo(S, k - 1)
         IN  P \cup {q \cup {c} : q \in P, c \in S}

\* every DenseX x DenseY array with at most one start and at most one end
DenseGrids ==
    {MkGrid(DenseX, DenseY, s, e, obs) :
        s \in AtMostOne(Rect(DenseX, DenseY)),
        e \in AtMostOne(Rect(DenseX, DenseY)),
        obs \in SUBSET Rect(DenseX, DenseY)}

\* SparseX x SparseY arrays, start in the corner, at most MaxObstacles obstacles
SparseGrids ==
    {MkGrid(SparseX, SparseY, {<<0, 0>>}, {e}, obs) :
        e \in Rect(SparseX, SparseY) \ {<<0, 0>>},
        obs \in SubsetsUpTo(Rect(SparseX, SparseY), MaxObstacles)}

\* every CodeX x CodeY array over the codes 0..MaxCode
CodeGrids == [0..(CodeX - 1) -> [0..(CodeY - 1) -> 0..MaxCode]]

\* the array of the AStar docstring
DocRows ==
    << <<0, 0, 0, 0, 0, 0, 0>>,
       <<0, 0, 0, 3, 0, 0, 0>>,
       <<0, 1, 0, 3, 0, 2, 0>>,
       <<0, 0, 0, 3, 0, 0, 0>>,
       <<0, 0, 0, 0, 0, 0, 0>> >>

DocExample ==
    [x \in 0..(Len(DocRows) - 1) |->
        [y \in 0..(Len(DocRows[1]) - 1) |-> DocRows[x + 1][y + 1]]]

Inputs == DenseGrids \cup SparseGrids \cup CodeGrids \cup {DocExample}

----------------------------------------------------------------------------
(* The instance *)

Init ==
    /\ arr2d \in Inputs
    /\ pc = "new"
    /\ layout = <<>>
    /\ node_start = <<>>
    /\ node_end = <<>>
    /\ open_list = <<>>
    /\ closed_list = <<>>
    /\ search_ret = "none"
    /\ ever_true = FALSE
    /\ result = [status |-> "none", path |-> <<>>]
    /\ first = [ret |-> "none", path |-> <<>>]
    /\ self_id = "A"
    /\ other = <<>>

\* the node of the last cell, in the order of the construction loop, of kind t
LastOfType(lay, t) ==
    LET hits == {c \in Rect(Cardinality(DOMAIN lay), Cardinality(DOMAIN lay[0])) :
                    lay[c[1]][c[2]].node_type = t}
    IN  IF hits = {} THEN <<>>
        ELSE LET last == CHOOSE c \in hits : \A d \in hits :
                             d[1] < c[1] \/ (d[1] = c[1] /\ d[2] <= c[2])
             IN  <<lay[last[1]][last[2]]>>

BuildLayout(arr) ==
    [x \in DOMAIN arr |-> [y \in DOMAIN arr[x] |-> Node(x, y, from_value(arr[x][y]))]]

\* AStar.__init__
Construct ==
    /\ pc = "new"
    /\ LET lay == BuildLayout(arr2d)
           ns == LastOfType(lay, START)
           ne == LastOfType(lay, END)
       IN  /\ layout' = lay
           /\ node_start' = ns
           /\ node_end' = ne
           /\ \/ /\ ns = <<>> \/ ne = <<>>
                 /\ pc' = "invalid"       \* InvalidLayoutInitializationException
              \/ /\ ns # <<>> /\ ne # <<>>
                 /\ pc' = "idle"
    /\ UNCHANGED <<arr2d, open_list, closed_list, search_ret, ever_true, result,
                   first, self_id, other>>

\* mutant: the visited list is not cleared
Search_keeps_closed ==
    /\ pc = "idle"
    /\ node_end' = node_end
    /\ open_list' = <<node_start[1]>>
    /\ closed_list' = closed_list
    /\ pc' = "searching"
    /\ search_ret' = "none"
    /\ result' = [status |-> "none", path |-> <<>>]
    /\ UNCHANGED <<arr2d, layout, node_start, ever_true, first, self_id, other>>

\* AStar.search up to the call of __do_search.  The node returned by
\* set_edge_to_parent(None) is dropped, so node_end is left as it is.
Search ==
    /\ pc = "idle"
    /\ LET dropped == set_edge_to_parent(node_end[1], <<>>)
       IN  node_end' = node_end
    /\ open_list' = <<node_start[1]>>
    /\ closed_list' = <<>>
    /\ pc' = "searching"
    /\ search_ret' = "none"
    /\ result' = [status |-> "none", path |-> <<>>]
    /\ UNCHANGED <<arr2d, layout, node_start, ever_true, first, self_id, other>>

\* mutant: the end node of the layout is kept, without the winning edge
FoundEnd_layout(current) == <<layout[current.x][current.y]>>

\* the end node after the end has been selected: self.__node_end = current
FoundEnd(current) == <<current>>

\* the history after a search() has returned r
FirstRet(r) == IF first.ret = "none" THEN [first EXCEPT !.ret = r] ELSE first

\* the history after a get_result() has returned path
FirstPath(path) == IF first.path = <<>> THEN [first EXCEPT !.path = <<path>>] ELSE first

\* one invocation of AStar.__do_search, up to its return or its recursive call
DoSearch ==
    /\ pc = "searching"
    /\ \/ /\ Len(open_list) <= 0
          /\ search_ret' = "false"
          /\ first' = FirstRet("false")
          /\ pc' = "idle"
          /\ UNCHANGED <<open_list, closed_list, node_end, ever_true>>
       \/ /\ Len(open_list) > 0
          /\ LET current == MinNode(open_list)
                 open1 == Remove(current, open_list)
                 closed1 == Append(closed_list, current)
             IN  /\ closed_list' = closed1
                 /\ IF is_end(current)
                    THEN /\ node_end' = FoundEnd(current)
                         /\ open_list' = open1
                         /\ search_ret' = "true"
                         /\ first' = FirstRet("true")
                         /\ ever_true' = TRUE
                         /\ pc' = "idle"
                    ELSE /\ open_list' = Expand(get_neighbours(current), 1,
                                                current, open1, closed1)
                         /\ UNCHANGED <<node_end, search_ret, ever_true, pc, first>>
    /\ UNCHANGED <<arr2d, layout, node_start, result, self_id, other>>

\* AStar.get_result
GetResult ==
    /\ pc = "idle"
    /\ IF ~has_edge_to_parent(node_end[1])
       THEN /\ result' = [status |-> "raised", path |-> <<>>]   \* PathNotFoundException
            /\ first' = first
       ELSE /\ result' = [status |-> "returned", path |-> get_result_value]
            /\ first' = FirstPath(get_result_value)
    /\ UNCHANGED <<arr2d, pc, layout, node_start, node_end, open_list,
                   closed_list, search_ret, ever_true, self_id, other>>

Next == Construct \/ Search \/ DoSearch \/ GetResult

Spec == Init /\ [][Next]_vars

\* the DenseX x DenseY arrays with the start in the corner and at most one end
FairGrids ==
    {MkGrid(DenseX, DenseY, {<<0, 0>>}, e, obs) :
        e \in AtMostOne(Rect(DenseX, DenseY) \ {<<0, 0>>}),
        obs \in SUBSET Rect(DenseX, DenseY)}

InitFair == Init /\ arr2d \in FairGrids

\* search() is one synchronous call: once inside it, __do_search keeps
\* being invoked until it returns.  This is
\* weak fairness of DoSearch, that is WF_vars(DoSearch) with
\* ENABLED <<DoSearch>>_vars written out as pc = "searching"
FairDoSearch == []<>(pc # "searching") \/ []<><<DoSearch>>_vars

SpecFair == InitFair /\ [][Next]_vars /\ FairDoSearch

\* Two instances of the class.  The fields assigned through self belong to
\* one instance each; __open_list and __closed_list are attributes of the
\* class that every instance mutates in place and none ever rebinds.
InstanceFields ==
    [arr2d |-> arr2d, pc |-> pc, layout |-> layout, node_start |-> node_start,
     node_end |-> node_end, search_ret |-> search_ret, ever_true |-> ever_true,
     result |-> result, first |-> first]

NewInstance(arr) ==
    [arr2d |-> arr, pc |-> "new", layout |-> <<>>, node_start |-> <<>>,
     node_end |-> <<>>, search_ret |-> "none", ever_true |-> FALSE,
     result |-> [status |-> "none", path |-> <<>>],
     first |-> [ret |-> "none", path |-> <<>>]]

\* the list that self.__open_list / self.__closed_list of an instance denotes
FrontierOf(id) == open_list
VisitedOf(id) == closed_list

\* the TwoX x TwoY arrays with the start in the corner, at most one end and
\* at most one obstacle
TwoInputs ==
    {MkGrid(TwoX, TwoY, {<<0, 0>>}, e, obs) :
        e \in AtMostOne(Rect(TwoX, TwoY) \ {<<0, 0>>}),
        obs \in SubsetsUpTo(Rect(TwoX, TwoY), 1)}

InitTwo ==
    /\ arr2d \in TwoInputs
    /\ pc = "new"
    /\ layout = <<>>
    /\ node_start = <<>>
    /\ node_end = <<>>
    /\ open_list = <<>>
    /\ closed_list = <<>>
    /\ search_ret = "none"
    /\ ever_true = FALSE
    /\ result = [status |-> "none", path |-> <<>>]
    /\ first = [ret |-> "none", path |-> <<>>]
    /\ self_id = "A"
    /\ other \in {<<NewInstance(arr)>> : arr \in TwoInputs}

\* the next call, or the next invocation of __do_search when the two
\* searches run in two threads, is made on the other instance
Switch ==
    /\ other # <<>>
    /\ other' = <<InstanceFields>>
    /\ arr2d' = other[1].arr2d
    /\ pc' = other[1].pc
    /\ layout' = other[1].layout
    /\ node_start' = other[1].node_start
    /\ node_end' = other[1].node_end
    /\ search_ret' = other[1].search_ret
    /\ ever_true' = other[1].ever_true
    /\ result' = other[1].result
    /\ first' = other[1].first
    /\ self_id' = IF self_id = "A" THEN "B" ELSE "A"
    /\ UNCHANGED <<open_list, closed_list>>

NextTwo == Next \/ Switch

SpecTwo == InitTwo /\ [][NextTwo]_vars

----------------------------------------------------------------------------
(* Notions the properties are stated in, independent of the search *)

Abs(n) == IF n < 0 THEN 0 - n ELSE n
Chebyshev(a, b) ==
    IF Abs(a[1] - b[1]) > Abs(a[2] - b[2]) THEN Abs(a[1] - b[1]) ELSE Abs(a[2] - b[2])
Adjacent(a, b) == Chebyshev(a, b) = 1
StepCost(a, b) == IF a[1] # b[1] /\ a[2] # b[2] THEN 14 ELSE 10

GridCells == Rect(Cardinality(DOMAIN arr2d), Cardinality(DOMAIN arr2d[0]))
CodeAt(c) == arr2d[c[1]][c[2]]
\* a cell is an obstacle when its code is 3 or above
Passable(c) == CodeAt(c) < 3
CellsCoded(k) == {c \in GridCells : CodeAt(c) = k}

\* a valid grid: one start, one end
ValidGrid == Cardinality(CellsCoded(1)) = 1 /\ Cardinality(CellsCoded(2)) = 1
StartC == CHOOSE c \in GridCells : CodeAt(c) = 1
EndC == CHOOSE c \in GridCells : CodeAt(c) = 2

\* the passable in-grid cells around c
PassableAround(c) ==
    {n \in {<<c[1] + dx, c[2] + dy>> : dx \in {-1, 0, 1}, dy \in {-1, 0, 1}} :
        /\ n # c
        /\ n[1] \in DOMAIN arr2d
        /\ n[2] \in DOMAIN arr2d[0]
        /\ Passable(n)}

\* the cells reachable from the cells of R by 8-neighbour moves through
\* passable cells, fresh being the cells of R not yet expanded
RECURSIVE ReachFrom(_, _)
ReachFrom(R, fresh) ==
    LET more == (UNION {PassableAround(c) : c \in fresh}) \ R
    IN  IF more = {} THEN R ELSE ReachFrom(R \cup more, more)

\* least cost of an 8-connected obstacle-free route from StartC to every cell
\* that has one, as a set of <<cell, cost>>: Bellman-Ford, one round per cell
RelaxOnce(D) ==
    LET cand == D \cup UNION {
                    {<<c, q[2] + StepCost(q[1], c)>> : c \in PassableAround(q[1])} :
                    q \in D}
    IN  {q \in cand : \A r \in cand : r[1] = q[1] => q[2] <= r[2]}

RECURSIVE RelaxTimes(_, _)
RelaxTimes(D, n) == IF n = 0 THEN D ELSE RelaxTimes(RelaxOnce(D), n - 1)

MinDistSet == RelaxTimes({<<StartC, 0>>}, Cardinality(GridCells))

EndReachable == EndC \in ReachFrom({StartC}, {StartC})
MinDistEnd == (CHOOSE q \in MinDistSet : q[1] = EndC)[2]

RECURSIVE RouteCost(_)
RouteCost(route) ==
    IF Len(route) < 2 THEN 0
    ELSE StepCost(route[1], route[2]) + RouteCost(Tail(route))

Returned == pc = "idle" /\ result.status = "returned"

----------------------------------------------------------------------------
(* Properties *)

\* C1: on a valid grid where search() returned true, the route start, the
\* cells of get_result(), end has the least total step cost (10 orthogonal,
\* 14 diagonal) of all obstacle-free 8-connected routes from start to end.
C1_ShortestPath ==
    (ValidGrid /\ Returned) =>
        RouteCost(<<StartC>> \o result.path \o <<EndC>>) = MinDistEnd

\* C2: on a valid grid search() returns true iff the end cell is reachable
\* from the start cell by 8-neighbour moves through non-obstacle cells, and
\* returns false exactly with the frontier exhausted and the end never selected.
C2_Complete ==
    (ValidGrid /\ pc = "idle" /\ search_ret # "none") =>
        /\ (search_ret = "true") <=> EndReachable
        /\ (search_ret = "false") <=>
               (open_list = <<>> /\ ~\E i \in 1..Len(closed_list) :
                                        <<closed_list[i].x, closed_list[i].y>> = EndC)

C2_Witness ==
    /\ ValidGrid /\ pc = "idle" /\ search_ret = "false"
    /\ Len(closed_list) >= 3
    /\ \E c \in GridCells : ~Passable(c)

\* C3 as stated: the sequence of get_result() starts next to the start cell
\* and ends with the end cell's coordinates.
C3_EndsAtEnd ==
    (ValidGrid /\ Returned /\ result.path # <<>>) =>
        /\ Adjacent(result.path[1], StartC)
        /\ result.path[Len(result.path)] = EndC

\* C3 amended: the sequence of get_result() is empty exactly when the end
\* cell is adjacent to the start cell; otherwise its first element is
\* adjacent to the start cell and its last element is adjacent to the end
\* cell, whose own coordinates are not in the sequence.
C3_EndsNextToEnd ==
    (ValidGrid /\ Returned) =>
        /\ (result.path = <<>>) <=> Adjacent(StartC, EndC)
        /\ result.path # <<>> =>
              /\ Adjacent(result.path[1], StartC)
              /\ Adjacent(result.path[Len(result.path)], EndC)
        /\ \A i \in 1..Len(result.path) : result.path[i] # EndC

C3_Witness ==
    ValidGrid /\ Returned /\ Len(result.path) >= 3 /\ Chebyshev(StartC, EndC) = 2

\* C4: every two consecutive coordinates of the sequence of get_result() are
\* distinct grid cells at Chebyshev distance exactly 1.
C4_StepsAdjacent ==
    (ValidGrid /\ Returned) =>
        \A i \in 1..(Len(result.path) - 1) :
            /\ result.path[i] \in GridCells
            /\ result.path[i + 1] \in GridCells
            /\ result.path[i] # result.path[i + 1]
            /\ Chebyshev(result.path[i], result.path[i + 1]) = 1

C4_Witness == ValidGrid /\ Returned /\ Len(result.path) >= 4

\* C5: every coordinate of the sequence of get_result() is an in-bounds
\* cell that is no obstacle, and no obstacle cell is ever in the frontier or
\* in the visited set.
C5_NoObstacle ==
    /\ \A i \in 1..Len(result.path) :
          result.path[i] \in GridCells /\ Passable(result.path[i])
    /\ \A i \in 1..Len(open_list) :
          /\ <<open_list[i].x, open_list[i].y>> \in GridCells
          /\ Passable(<<open_list[i].x, open_list[i].y>>)
          /\ ~is_obstacle(open_list[i])
    /\ \A i \in 1..Len(closed_list) :
          /\ <<closed_list[i].x, closed_list[i].y>> \in GridCells
          /\ Passable(<<closed_list[i].x, closed_list[i].y>>)
          /\ ~is_obstacle(closed_list[i])

\* a path was returned that passes next to an obstacle
C5_Witness ==
    /\ Returned /\ Len(result.path) >= 2
    /\ \E i \in 1..Len(result.path) : \E c \in GridCells :
          ~Passable(c) /\ Adjacent(c, result.path[i])

\* C6: get_result() raises 'path not found', returning no path, whenever no
\* search() on the instance has returned true (before any search(), and
\* after a search() that returned false), and does not raise after a
\* search() that returned true.
C6_RaisesUnlessFound ==
    (pc = "idle" /\ result.status # "none") =>
        /\ ~ever_true => (result.status = "raised" /\ result.path = <<>>)
        /\ search_ret = "true" => result.status = "returned"

\* get_result() raised after a search() that explored and returned false
C6_Witness ==
    /\ pc = "idle" /\ result.status = "raised"
    /\ search_ret = "false" /\ Len(closed_list) >= 2

\* C7: construction fails with 'invalid layout' exactly when the array has
\* no cell of kind Start or no cell of kind End, and succeeds otherwise.
C7_InvalidLayout ==
    pc # "new" =>
        ((pc = "invalid") <=> (CellsCoded(1) = {} \/ CellsCoded(2) = {}))

\* construction failed for want of an end, on an array with a clamped code
C7_Witness ==
    /\ pc = "invalid"
    /\ CellsCoded(1) # {} /\ CellsCoded(2) = {}
    /\ \E c \in GridCells : CodeAt(c) > 3

\* start and end adjacent, every other cell blank
DirectGrid ==
    /\ ValidGrid
    /\ Adjacent(StartC, EndC)
    /\ \A c \in GridCells : CodeAt(c) \in {0, 1, 2}

\* C8 as stated: with start and end adjacent and every other cell blank,
\* search() returns true and get_result() returns the single step onto the
\* end cell, a sequence whose only and last element is the end cell.
C8_DirectStepIsEnd ==
    (DirectGrid /\ pc = "idle" /\ search_ret # "none") =>
        /\ search_ret = "true"
        /\ result.status # "none" => result = [status |-> "returned", path |-> <<EndC>>]

\* C8 amended: with start and end adjacent and every other cell blank,
\* search() returns true and get_result() returns the empty sequence: the
\* direct step has no intermediate cell and the end cell is not listed.
C8_DirectStepEmpty ==
    (DirectGrid /\ pc = "idle" /\ search_ret # "none") =>
        /\ search_ret = "true"
        /\ result.status # "none" => result = [status |-> "returned", path |-> <<>>]

\* a diagonal direct step
C8_Witness ==
    /\ DirectGrid /\ Returned
    /\ StartC[1] # EndC[1] /\ StartC[2] # EndC[2]

\* the g of a node on the chain, the start counting as 0
GOf(n) == IF has_edge_to_parent(n) THEN EdgeOf(n).g ELSE 0

RECURSIVE ChainMonotone(_)
ChainMonotone(n) ==
    IF ~has_edge_to_parent(n) THEN TRUE
    ELSE /\ EdgeOf(n).g >= GOf(EdgeOf(n).target)
         /\ ChainMonotone(EdgeOf(n).target)

RECURSIVE ChainLen(_)
ChainLen(n) == IF ~has_edge_to_parent(n) THEN 0 ELSE 1 + ChainLen(EdgeOf(n).target)

\* C9: after a successful search() the g of every annotated cell on the
\* chain from the end cell is at least the g of the cell its annotation
\* points to, the start counting as g = 0.
C9_GMonotone ==
    (pc = "idle" /\ search_ret = "true") => ChainMonotone(node_end[1])

C9_Witness ==
    /\ pc = "idle" /\ search_ret = "true"
    /\ ChainLen(node_end[1]) >= 4
    /\ EdgeOf(node_end[1]).is_diagonal
    /\ ~EdgeOf(EdgeOf(node_end[1]).target).is_diagonal

DocPath == << <<2, 2>>, <<3, 2>>, <<4, 2>>, <<4, 3>>, <<4, 4>>, <<3, 4>>, <<3, 5>> >>

\* C10: for the array of the AStar docstring search() returns true and
\* get_result() returns [(2,2), (3,2), (4,2), (4,3), (4,4), (3,4), (3,5)].
C10_DocExample ==
    (arr2d = DocExample /\ pc = "idle" /\ search_ret # "none") =>
        /\ search_ret = "true"
        /\ result.status # "none" => result = [status |-> "returned", path |-> DocPath]

\* the coordinates of the nodes of a list
Coords(list) == [i \in 1..Len(list) |-> <<list[i].x, list[i].y>>]
NoRepeat(seq) == \A i, j \in 1..Len(seq) : seq[i] = seq[j] => i = j
PassableCells == {c \in GridCells : Passable(c)}

\* every selection step so far has visited a cell of its own, none of which
\* is back in the frontier
C11_StepsBounded ==
    /\ NoRepeat(Coords(closed_list))
    /\ Len(closed_list) <= Cardinality(PassableCells)
    /\ \A i \in 1..Len(closed_list) : ~InList(closed_list[i], open_list)

Annotated ==
    {open_list[i] : i \in {j \in 1..Len(open_list) : has_edge_to_parent(open_list[j])}}
        \cup {closed_list[i] :
                  i \in {j \in 1..Len(closed_list) : has_edge_to_parent(closed_list[j])}}

\* C12: every edge computed during expansion has g equal to the g of its
\* parent plus 10 for an orthogonal and plus 14 for a diagonal neighbour,
\* the start counting as g = 0; a neighbour of the start has g = 10 or 14.
C12_GAccumulates ==
    \A n \in Annotated :
        EdgeOf(n).g = GOf(EdgeOf(n).target) + (IF EdgeOf(n).is_diagonal THEN 14 ELSE 10)

\* C13: at the first selection step of every search() call, also of a call
\* made after a successful one, the frontier holds exactly the start cell,
\* the visited list is empty and the end cell carries no annotation.
C13_SearchResets ==
    [][(pc = "idle" /\ pc' = "searching") =>
          /\ open_list' = <<node_start'[1]>>
          /\ closed_list' = <<>>
          /\ ~has_edge_to_parent(node_end'[1])]_vars

\* the fields of instance id
FieldsOf(id) == IF self_id = id THEN InstanceFields ELSE other[1]

\* C14: each instance owns its frontier and its visited list: a step made
\* on instance B leaves the frontier, the visited list and the annotations
\* of a constructed instance A unchanged.
C14_Isolated ==
    [][(self_id = "B" /\ self_id' = "B" /\ FieldsOf("A").pc \in {"idle", "searching"}) =>
          /\ FrontierOf("A")' = FrontierOf("A")
          /\ VisitedOf("A")' = VisitedOf("A")
          /\ FieldsOf("A")' = FieldsOf("A")]_vars

\* the node selected by the last step of __do_search
LastVisited == closed_list[Len(closed_list)]

\* C15: once a cell has been moved from the frontier to the visited list its
\* annotation is not changed for the rest of the search() run and the cell
\* is not added to the frontier again.
C15_VisitedFinal ==
    [][pc = "searching" =>
          /\ Len(closed_list') >= Len(closed_list)
          /\ \A i \in 1..Len(closed_list) : closed_list'[i] = closed_list[i]
          /\ \A i \in 1..Len(closed_list') : ~InList(closed_list'[i], open_list')]_vars

\* the cell just expanded is next to an annotated visited cell that is
\* neither its parent nor a child of its parent: that cell keeps its edge
C15_Witness ==
    /\ pc = "searching" /\ Len(closed_list) >= 3
    /\ \E i \in 1..(Len(closed_list) - 1) :
          /\ Adjacent(Coords(closed_list)[i], Coords(closed_list)[Len(closed_list)])
          /\ has_edge_to_parent(closed_list[i])
          /\ has_edge_to_parent(LastVisited)
          /\ ~NodeEq(EdgeOf(LastVisited).target, closed_list[i])
          /\ ~NodeEq(EdgeOf(closed_list[i]).target, EdgeOf(LastVisited).target)

XY(n) == <<n.x, n.y>>
IsDiagonal(a, b) == a.x # b.x /\ a.y # b.y

\* the visited cells next to n: each of them, when expanded, computed a
\* candidate edge for n
AdjVisited(n) == {i \in 1..Len(closed_list) : Adjacent(XY(closed_list[i]), XY(n))}

\* the candidate edge the visited cell i computed for n
CandidateOf(i, n) ==
    Edge(closed_list[i], calc_g(closed_list[i], IsDiagonal(closed_list[i], n)),
         calc_h(n), IsDiagonal(closed_list[i], n))

\* the earliest of the candidates of least g
BestCandidate(n) ==
    LET best == CHOOSE i \in AdjVisited(n) : \A j \in AdjVisited(n) :
                    \/ CandidateOf(i, n).g < CandidateOf(j, n).g
                    \/ CandidateOf(i, n).g = CandidateOf(j, n).g /\ i <= j
    IN  CandidateOf(best, n)

\* C16: a frontier cell's stored edge is replaced by a candidate edge only
\* if the candidate's g is strictly lower and is left unchanged otherwise;
\* so the stored edge is the earliest candidate of least g computed for the
\* cell so far in the run, and the cell keeps a single frontier entry at
\* its position.
C16_CheaperParent ==
    /\ [](pc = "searching" =>
            /\ NoRepeat(Coords(open_list))
            /\ \A k \in 1..Len(open_list) :
                  has_edge_to_parent(open_list[k]) =>
                      /\ AdjVisited(open_list[k]) # {}
                      /\ EdgeOf(open_list[k]) = BestCandidate(open_list[k]))
    /\ [][(pc = "searching" /\ pc' = "searching") =>
            LET current == closed_list'[Len(closed_list')]
                kept == SelectSeq(open_list, LAMBDA n : ~NodeEq(n, current))
            IN  /\ Len(open_list') >= Len(kept)
                /\ \A k \in 1..Len(kept) :
                      /\ NodeEq(open_list'[k], kept[k])
                      /\ \/ open_list'[k] = kept[k]
                         \/ /\ EdgeOf(open_list'[k]).target = current
                            /\ EdgeOf(open_list'[k]).g < EdgeOf(kept[k]).g
                      /\ ( /\ Adjacent(XY(current), XY(kept[k]))
                           /\ calc_g(current, IsDiagonal(current, kept[k]))
                                 >= EdgeOf(kept[k]).g )
                         => open_list'[k] = kept[k]]_vars

\* a frontier cell whose stored edge has replaced an earlier, costlier one
C16_Witness ==
    /\ pc = "searching"
    /\ \E k \in 1..Len(open_list) : \E i \in AdjVisited(open_list[k]) :
          /\ has_edge_to_parent(open_list[k])
          /\ CandidateOf(i, open_list[k]).g > EdgeOf(open_list[k]).g
          /\ \E j \in AdjVisited(open_list[k]) :
                i < j /\ closed_list[j] = EdgeOf(open_list[k]).target

\* score(a) < score(b), a Start-kind node scoring 0, any other g + h
ScoreLess(a, b) ==
    FLess(get_f_or_zero_if_start(a).g, get_f_or_zero_if_start(a).h,
          get_f_or_zero_if_start(b).g, get_f_or_zero_if_start(b).h)

\* C17: the cell a step moves from the frontier to the visited list has the
\* least score of the frontier, a Start-kind cell scoring 0 and any other
\* f = g + h of its annotation, and is the earliest frontier entry of that
\* score.
C17_SelectsFirstMin ==
    [][(pc = "searching" /\ open_list # <<>>) =>
          /\ Len(closed_list') = Len(closed_list) + 1
          /\ \E k \in 1..Len(open_list) :
                /\ closed_list'[Len(closed_list')] = open_list[k]
                /\ \A j \in 1..Len(open_list) : ~ScoreLess(open_list[j], open_list[k])
                /\ \A j \in 1..(k - 1) : ScoreLess(open_list[k], open_list[j])]_vars

\* the cell just selected had the same score as a frontier cell that is
\* still waiting
C17_Witness ==
    /\ pc = "searching" /\ Len(closed_list) >= 2
    /\ \E k \in 1..Len(open_list) :
          /\ EdgeOf(open_list[k]).target # LastVisited
          /\ ~ScoreLess(open_list[k], LastVisited)
          /\ ~ScoreLess(LastVisited, open_list[k])

\* n, the node its edge points to, and so on down to a node without an edge
RECURSIVE ChainFrom(_)
ChainFrom(n) ==
    IF has_edge_to_parent(n) THEN <<n>> \o ChainFrom(EdgeOf(n).target) ELSE <<n>>

\* C18: after a successful search() on a valid grid get_result() returns the
\* cells met by following the edges from the end cell's parent back to,
\* but not including, the start cell, in start-to-end order; the start
\* cell's coordinates are not in the result.
C18_ResultIsChain ==
    (ValidGrid /\ Returned) =>
        LET chain == ChainFrom(EdgeOf(node_end[1]).target)
            n == Len(result.path)
        IN  /\ Len(chain) = n + 1
            /\ chain[n + 1] = node_start[1]
            /\ \A i \in 1..n : result.path[i] = XY(chain[n + 1 - i])
            /\ \A i \in 1..n : result.path[i] # XY(node_start[1])

\* a returned path of three cells or more around an obstacle
C18_Witness ==
    /\ ValidGrid /\ Returned
    /\ Len(result.path) >= 3
    /\ CellsCoded(3) # {}
    /\ Len(ChainFrom(node_end[1])) = Len(result.path) + 2

\* C19: on one instance every search() returns the boolean the first one
\* returned and every get_result() after a successful search() returns the
\* sequence the first one returned, whatever calls of get_result() were
\* made in between.
C19_Idempotent ==
    /\ (pc = "idle" /\ search_ret # "none") => search_ret = first.ret
    /\ Returned => first.path = <<result.path>>

\* a later search() has returned after an earlier search() and get_result()
C19_Witness ==
    /\ pc = "idle" /\ search_ret = "true" /\ result.status = "none"
    /\ first.ret = "true" /\ first.path # <<>>
    /\ Len(first.path[1]) >= 2

\* the chain of n ends at the start node, which has no edge, and passes no
\* coordinate twice
ReachesStart(n) ==
    LET chain == ChainFrom(n)
    IN  /\ chain[Len(chain)] = node_start[1]
        /\ NoRepeat(Coords(chain))

\* n is the start node or carries an edge to a node of the visited list
\* from which the chain leads to the start
WellFounded(n) ==
    \/ n = node_start[1]
    \/ /\ ~NodeEq(n, node_start[1])
       /\ has_edge_to_parent(n)
       /\ \E i \in 1..Len(closed_list) : closed_list[i] = EdgeOf(n).target
       /\ ReachesStart(n)

\* C20: at every step of search() every cell of the frontier and of the
\* visited list other than the start carries an edge to a cell of the
\* visited list, and following the edges from it leads to the start, which
\* has no edge, without passing a coordinate twice; so after a successful
\* search() the walk of get_result() ends at the start.
C20_ChainWellFounded ==
    /\ pc \in {"searching", "idle"} =>
          /\ \A k \in 1..Len(open_list) : WellFounded(open_list[k])
          /\ \A k \in 1..Len(closed_list) : WellFounded(closed_list[k])
    /\ (pc = "idle" /\ search_ret = "true") =>
          /\ node_end[1] = LastVisited
          /\ ReachesStart(EdgeOf(node_end[1]).target)

\* a frontier cell four edges away from the start
C20_Witness ==
    /\ pc = "searching"
    /\ \E k \in 1..Len(open_list) : Len(ChainFrom(open_list[k])) >= 5


====
